---- MODULE Spec2Model ----
(***************************************************************************)
(* CrawlFrontierScheduler (crawlfrontier/contrib/scrapy/schedulers/        *)
(* frontier.py): the scrapy scheduler that routes requests between the     *)
(* host engine, the crawl frontier and the downloader, together with its   *)
(* StatsManager.  The frontier manager, the downloader and the scrapy      *)
(* stats collector are collaborators: the frontier is a recording double   *)
(* (how often each method was called and with what), the downloader is     *)
(* the integer total_concurrency read at every next_request call.          *)
(***************************************************************************)
EXTENDS Integers, Sequences, FiniteSets, TLC

\* ------------------------------------------------------------------ bounds
MaxRedirectTimes == 1   \* largest redirect_times a request's meta carries
MaxBatch == 2           \* longest batch frontier.get_next_requests returns
MaxConcurrency == 2     \* largest downloader.total_concurrency
MaxResult == 3          \* longest spider result given to process_spider_output
MaxOps == 4             \* admission and dispatch calls explored per run
MaxReportOps == 4       \* outcome reporting calls explored per run
MaxStatsOps == 4
MaxLiveOps == 3
LowConcurrency == 1     \* largest total_concurrency of a saturated downloader
MaxRefillOps == 2       \* calls explored per run with batches beyond MaxBatch

\* -------------------------------------------------------------- constants
STATS_PREFIX == "crawlfrontier"

\* ------------------------------------------------------------------ values
Urls == {"A", "B"}

\* request.meta is a dict; the key redirect_times may be absent
NoMeta == [k \in {} |-> 0]

Metas == {NoMeta} \cup {[k \in {"redirect_times"} |-> n] : n \in 0..MaxRedirectTimes}

\* the requests the host engine hands to enqueue_request
Requests == [url : Urls, meta : Metas]

\* the requests the frontier hands back from get_next_requests
FrontierRequests == [url : Urls, meta : {NoMeta}]

\* Python's None, as returned by next_request on an empty buffer
None == [none |-> TRUE]

\* the sequences over S of length at most n
SeqsUpTo(S, n) == UNION {[1..k -> S] : k \in 0..n}

Batches == SeqsUpTo(FrontierRequests, MaxBatch)

\* batches of up to MaxBatch + 1 requests, each request once, out of three
LongBatchRequests == [url : Urls \cup {"C"}, meta : {NoMeta}]

LongBatches ==
    {b \in SeqsUpTo(LongBatchRequests, MaxBatch + 1) :
        \A i, j \in 1..Len(b) : b[i] = b[j] => i = j}

\* what a spider callback yields: Request objects (links) and other items
Items == {[item |-> "x"], [item |-> "y"]}

Elements == FrontierRequests \cup Items

Results == SeqsUpTo(Elements, MaxResult)

Responses == [status : {200, 404}]

\* the failures the downloader middleware reports; reading
\* exception.__class__.__name__ either gives the class name or raises
Exceptions ==
    [readable : {TRUE}, class_name : {"TimeoutError", "DNSLookupError"}]
        \cup [readable : {FALSE}, class_name : {"TimeoutError"}]

\* ------------------------------------------------------------------- state
VARIABLES
    phase,             \* the host engine's position: "new", "open", "closed"
    redirect_enabled,  \* self.redirect_enabled
    pending,           \* self._pending_requests (deque, left end first)
    stats,             \* crawler.stats: stat name -> value
    manager,           \* self.frontier.manager: auto_start, finished, iteration
    frontier,          \* self.frontier: calls received, per method
    gen,               \* the generator process_spider_output returned
    last,              \* the host call that just returned, and its result
    buffered,          \* every request appended to the deque so far, in order
    dispatched,        \* every request next_request returned so far, in order
    nops               \* host calls made so far

vars == <<phase, redirect_enabled, pending, stats, manager, frontier, gen, last,
          buffered, dispatched, nops>>

\* ------------------------------------------------------------ StatsManager
\* '%s/%s' % (self.prefix, variable)
_get_stats_name(variable) == STATS_PREFIX \o "/" \o variable

_inc_value(st, variable, count) ==
    LET key == _get_stats_name(variable)
    IN IF key \in DOMAIN st
       THEN [st EXCEPT ![key] = @ + count]
       ELSE (key :> count) @@ st

_set_value(st, variable, value) ==
    LET key == _get_stats_name(variable)
    IN IF key \in DOMAIN st
       THEN [st EXCEPT ![key] = value]
       ELSE (key :> value) @@ st

\* str() of a non-negative integer: its decimal digits
Digit(d) ==
    CASE d = 0 -> "0" [] d = 1 -> "1" [] d = 2 -> "2" [] d = 3 -> "3"
      [] d = 4 -> "4" [] d = 5 -> "5" [] d = 6 -> "6" [] d = 7 -> "7"
      [] d = 8 -> "8" [] d = 9 -> "9"

RECURSIVE Str(_)
Str(n) == IF n < 10 THEN Digit(n) ELSE Str(n \div 10) \o Digit(n % 10)

\* variant: the per-status counter is incremented, the total is not
AddCrawledPage_StatusOnly(st, status_code, n_links) ==
    _inc_value(
        _inc_value(st, "crawled_pages_count/" \o Str(status_code), 1),
        "links_extracted_count", n_links)

add_crawled_page(st, status_code, n_links) ==
    _inc_value(
        _inc_value(
            _inc_value(st, "crawled_pages_count", 1),
            "crawled_pages_count/" \o Str(status_code), 1),
        "links_extracted_count", n_links)

\* error_code is a string already: str() leaves it as it is
add_request_error(st, error_code) ==
    _inc_value(
        _inc_value(st, "request_errors_count", 1),
        "request_errors_count/" \o error_code, 1)

add_seeds(st) == _inc_value(st, "seeds_count", 1)

add_redirected_requests(st) == _inc_value(st, "redirected_requests_count", 1)

add_returned_requests(st) == _inc_value(st, "returned_requests_count", 1)

set_iterations(st, iterations) == _set_value(st, "iterations", iterations)

\* variant: the gauge is written as if the deque were empty already
SetPendingRequests_Zero(st, n) == _set_value(st, "pending_requests_count", 0)

set_pending_requests(st, n) == _set_value(st, "pending_requests_count", n)

\* ------------------------------------------------- CrawlFrontierScheduler
\* variant: >= 0 in place of > 0
RequestIsRedirected_OrEqual(request) ==
    (IF "redirect_times" \in DOMAIN request.meta
     THEN request.meta["redirect_times"]
     ELSE 0) >= 0

\* request.meta.get('redirect_times', 0) > 0
_request_is_redirected(request) ==
    (IF "redirect_times" \in DOMAIN request.meta
     THEN request.meta["redirect_times"]
     ELSE 0) > 0

\* variant: appendleft in place of append
AddPendingRequest_Left(buf, request) == <<request>> \o buf

_add_pending_request(buf, request) == Append(buf, request)

\* variant: pop in place of popleft
GetPendingRequest_Right(buf) ==
    IF Len(buf) > 0
    THEN <<buf[Len(buf)], SubSeq(buf, 1, Len(buf) - 1)>>
    ELSE <<None, buf>>

\* popleft() if the deque is non-empty, else None: <<returned, rest>>
_get_pending_request(buf) ==
    IF Len(buf) > 0 THEN <<Head(buf), Tail(buf)>> ELSE <<None, buf>>

\* variant: the batch ends up in the deque in reverse order
RECURSIVE AddBatch_Reversed(_, _)
AddBatch_Reversed(buf, batch) ==
    IF batch = <<>> THEN buf
    ELSE _add_pending_request(AddBatch_Reversed(buf, Tail(batch)), Head(batch))

\* the for loop of _get_next_request: every request of the batch, in order
RECURSIVE AddBatch(_, _)
AddBatch(buf, batch) ==
    IF batch = <<>> THEN buf
    ELSE AddBatch(_add_pending_request(buf, Head(batch)), Tail(batch))

\* variant: the frontier's finished flag is not consulted
ShouldRefill_IgnoresFinished(finished, buflen, total_concurrency) ==
    buflen < total_concurrency

\* variant: the downloader's capacity is not consulted
ShouldRefill_IgnoresCapacity(finished, buflen, total_concurrency) ==
    ~finished

\* variant: <= in place of <
ShouldRefill_OrEqual(finished, buflen, total_concurrency) ==
    ~finished /\ buflen <= total_concurrency

\* the condition under which _get_next_request asks the frontier for more
ShouldRefill(finished, buflen, total_concurrency) ==
    ~finished /\ buflen < total_concurrency

\* variant: another fallback label
GetExceptionCode_OtherFallback(exception) ==
    IF exception.readable THEN exception.class_name ELSE "Exception"

\* exception.__class__.__name__, or '?' when reading it raises
_get_exception_code(exception) ==
    IF exception.readable THEN exception.class_name ELSE "?"

\* isinstance(element, Request)
IsRequest(element) == "url" \in DOMAIN element

\* variant: links.insert(0, element) in place of links.append(element)
RECURSIVE RunLoop_Prepends(_, _, _)
RunLoop_Prepends(result, i, links) ==
    IF i > Len(result)
    THEN [yields |-> FALSE, pos |-> i, links |-> links]
    ELSE IF IsRequest(result[i])
    THEN RunLoop_Prepends(result, i + 1, <<result[i]>> \o links)
    ELSE [yields |-> TRUE, pos |-> i + 1, links |-> links, element |-> result[i]]

\* the for loop of process_spider_output from element i on, with the links
\* gathered so far: it runs to the next yield or to the end of result
RECURSIVE RunLoop(_, _, _)
RunLoop(result, i, links) ==
    IF i > Len(result)
    THEN [yields |-> FALSE, pos |-> i, links |-> links]
    ELSE IF IsRequest(result[i])
    THEN RunLoop(result, i + 1, Append(links, result[i]))
    ELSE [yields |-> TRUE, pos |-> i + 1, links |-> links, element |-> result[i]]

\* len(self)
SchedulerLen == Len(pending)

has_pending_requests == SchedulerLen > 0

Init ==
    /\ phase = "new"
    /\ redirect_enabled \in BOOLEAN
    /\ pending = <<>>
    /\ stats = [k \in {} |-> 0]
    /\ manager = [auto_start |-> FALSE, finished |-> FALSE, iteration |-> 0]
    /\ frontier = [start |-> 0, stop |-> 0, stop_reason |-> "",
                   add_seeds |-> 0, add_seeds_arg |-> <<>>,
                   get_next_requests |-> 0, get_next_requests_ret |-> <<>>,
                   page_crawled |-> 0, page_crawled_arg |-> <<>>,
                   request_error |-> 0, request_error_arg |-> <<>>]
    /\ gen = [state |-> "none"]
    /\ last = [op |-> "__init__"]
    /\ buffered = <<>>
    /\ dispatched = <<>>
    /\ nops = 0

\* variant: open that does not consult manager.auto_start
Open_AlwaysStarts ==
    /\ phase = "new"
    /\ phase' = "open"
    /\ frontier' = [frontier EXCEPT !.start = @ + 1]
    /\ last' = [op |-> "open"]
    /\ UNCHANGED <<redirect_enabled, pending, stats, manager, nops, gen, buffered, dispatched>>

\* open(spider)
Open ==
    /\ phase = "new"
    /\ phase' = "open"
    /\ frontier' = IF ~manager.auto_start
                   THEN [frontier EXCEPT !.start = @ + 1]
                   ELSE frontier
    /\ last' = [op |-> "open"]
    /\ UNCHANGED <<redirect_enabled, pending, stats, manager, nops, gen, buffered, dispatched>>

\* variant: redirect_enabled is not consulted
EnqueueBranch_AlwaysRedirect(request, enabled) ==
    IF ~_request_is_redirected(request) THEN "seed" ELSE "redirect"

\* the branch enqueue_request takes for a request
EnqueueBranch(request, enabled) ==
    IF ~_request_is_redirected(request) THEN "seed"
    ELSE IF enabled THEN "redirect"
    ELSE "rejected"

\* enqueue_request(request)
EnqueueRequest(request) ==
    /\ phase = "open"
    /\ nops < MaxOps
    /\ nops' = nops + 1
    /\ LET branch == EnqueueBranch(request, redirect_enabled)
       IN CASE branch = "seed" ->
                 /\ frontier' = [frontier EXCEPT !.add_seeds = @ + 1,
                                                 !.add_seeds_arg = <<request>>]
                 /\ stats' = add_seeds(stats)
                 /\ last' = [op |-> "enqueue_request", request |-> request,
                             ret |-> TRUE]
                 /\ UNCHANGED <<pending, buffered>>
            [] branch = "redirect" ->
                 /\ pending' = _add_pending_request(pending, request)
                 /\ buffered' = Append(buffered, request)
                 /\ stats' = add_redirected_requests(stats)
                 /\ last' = [op |-> "enqueue_request", request |-> request,
                             ret |-> TRUE]
                 /\ UNCHANGED frontier
            [] branch = "rejected" ->
                 /\ last' = [op |-> "enqueue_request", request |-> request,
                             ret |-> FALSE]
                 /\ UNCHANGED <<pending, buffered, stats, frontier>>
    /\ UNCHANGED <<phase, redirect_enabled, manager, gen, dispatched>>

\* next_request(), with _get_next_request inlined; the downloader reports
\* total_concurrency and, when asked, the frontier returns batch
NextRequestCall(total_concurrency, batch) ==
    /\ phase = "open"
    /\ LET refill == ShouldRefill(manager.finished, SchedulerLen, total_concurrency)
           buf == IF refill THEN AddBatch(pending, batch) ELSE pending
           got == _get_pending_request(buf)
           request == got[1]
       IN /\ refill \/ batch = <<>>
          /\ frontier' = IF refill
                         THEN [frontier EXCEPT !.get_next_requests = @ + 1,
                                               !.get_next_requests_ret = batch]
                         ELSE frontier
          \* the frontier manager counts one iteration per batch it hands out
          /\ manager' = IF refill
                        THEN [manager EXCEPT !.iteration = @ + 1]
                        ELSE manager
          /\ buffered' = IF refill THEN buffered \o batch ELSE buffered
          /\ pending' = got[2]
          /\ stats' = IF request # None THEN add_returned_requests(stats) ELSE stats
          /\ dispatched' = IF request # None THEN Append(dispatched, request)
                           ELSE dispatched
          /\ last' = [op |-> "next_request", ret |-> request,
                      total_concurrency |-> total_concurrency,
                      finished |-> manager.finished,
                      refilled |-> refill,
                      buffer |-> buf]
    /\ UNCHANGED <<phase, redirect_enabled, gen>>

\* one call of next_request() out of the step budget
NextRequest(total_concurrency, batch) ==
    /\ nops < MaxOps
    /\ nops' = nops + 1
    /\ NextRequestCall(total_concurrency, batch)

\* the engine's loop calls next_request() again and again; here the budget
\* counts the requests the frontier hands out, not the calls
HostLoopNext(total_concurrency, batch) ==
    /\ pending # <<>> \/ batch # <<>>
    /\ nops + Len(batch) <= MaxLiveOps
    /\ nops' = nops + Len(batch)
    /\ NextRequestCall(total_concurrency, batch)

\* variant: the seed is counted before the frontier is called
EnqueueRequestRaises_CountsFirst(request) ==
    /\ phase = "open"
    /\ nops < MaxOps
    /\ nops' = nops + 1
    /\ EnqueueBranch(request, redirect_enabled) = "seed"
    /\ stats' = add_seeds(stats)
    /\ frontier' = [frontier EXCEPT !.add_seeds = @ + 1,
                                    !.add_seeds_arg = <<request>>]
    /\ last' = [op |-> "enqueue_request", request |-> request,
                raised |-> "add_seeds"]
    /\ UNCHANGED <<phase, redirect_enabled, pending, manager, gen,
                   buffered, dispatched>>

\* enqueue_request(request) when frontier.add_seeds raises: the exception
\* leaves enqueue_request at line 103, nothing after the call runs
EnqueueRequestRaises(request) ==
    /\ phase = "open"
    /\ nops < MaxOps
    /\ nops' = nops + 1
    /\ EnqueueBranch(request, redirect_enabled) = "seed"
    /\ frontier' = [frontier EXCEPT !.add_seeds = @ + 1,
                                    !.add_seeds_arg = <<request>>]
    /\ last' = [op |-> "enqueue_request", request |-> request,
                raised |-> "add_seeds"]
    /\ UNCHANGED <<phase, redirect_enabled, pending, stats, manager, gen,
                   buffered, dispatched>>

\* variant: the exception is swallowed and the head of the deque popped
NextRequestRaises_PopsAnyway(total_concurrency) ==
    /\ phase = "open"
    /\ nops < MaxOps
    /\ nops' = nops + 1
    /\ ShouldRefill(manager.finished, SchedulerLen, total_concurrency)
    /\ frontier' = [frontier EXCEPT !.get_next_requests = @ + 1]
    /\ pending' = _get_pending_request(pending)[2]
    /\ last' = [op |-> "next_request", total_concurrency |-> total_concurrency,
                raised |-> "get_next_requests"]
    /\ UNCHANGED <<phase, redirect_enabled, stats, manager, gen,
                   buffered, dispatched>>

\* next_request() when frontier.get_next_requests raises: the exception
\* leaves _get_next_request at line 156 and next_request at line 113
NextRequestRaises(total_concurrency) ==
    /\ phase = "open"
    /\ nops < MaxOps
    /\ nops' = nops + 1
    /\ ShouldRefill(manager.finished, SchedulerLen, total_concurrency)
    /\ frontier' = [frontier EXCEPT !.get_next_requests = @ + 1]
    /\ last' = [op |-> "next_request", total_concurrency |-> total_concurrency,
                raised |-> "get_next_requests"]
    /\ UNCHANGED <<phase, redirect_enabled, pending, stats, manager, gen,
                   buffered, dispatched>>

\* the frontier manager reports that it starts by itself
\* (manager.auto_start is true when open reads it)
ManagerAutoStarts ==
    /\ phase = "new"
    /\ ~manager.auto_start
    /\ manager' = [manager EXCEPT !.auto_start = TRUE]
    /\ UNCHANGED <<phase, redirect_enabled, pending, stats, frontier, last, nops, gen,
                   buffered, dispatched>>

\* the frontier reaches its end of crawl (manager.finished becomes true)
FrontierFinishes ==
    /\ phase = "open"
    /\ ~manager.finished
    /\ manager' = [manager EXCEPT !.finished = TRUE]
    /\ UNCHANGED <<phase, redirect_enabled, pending, stats, frontier, last, nops, gen,
                   buffered, dispatched>>

\* variant: close that also clears the deque
Close_Clears(reason) ==
    /\ phase = "open"
    /\ phase' = "closed"
    /\ frontier' = [frontier EXCEPT !.stop = @ + 1, !.stop_reason = reason]
    /\ stats' = set_pending_requests(set_iterations(stats, manager.iteration),
                                     SchedulerLen)
    /\ pending' = <<>>
    /\ last' = [op |-> "close", reason |-> reason]
    /\ UNCHANGED <<redirect_enabled, manager, nops, gen, buffered, dispatched>>

\* close(reason)
Close(reason) ==
    /\ phase = "open"
    /\ phase' = "closed"
    /\ frontier' = [frontier EXCEPT !.stop = @ + 1, !.stop_reason = reason]
    /\ stats' = set_pending_requests(set_iterations(stats, manager.iteration),
                                     SchedulerLen)
    /\ last' = [op |-> "close", reason |-> reason]
    /\ UNCHANGED <<redirect_enabled, pending, manager, nops, gen, buffered, dispatched>>

\* process_exception(request, exception, spider)
ProcessException(request, exception) ==
    /\ phase = "open"
    /\ nops < MaxReportOps
    /\ nops' = nops + 1
    /\ LET error_code == _get_exception_code(exception)
       IN /\ frontier' = [frontier EXCEPT !.request_error = @ + 1,
                                           !.request_error_arg = <<request, error_code>>]
          /\ stats' = add_request_error(stats, error_code)
          /\ last' = [op |-> "process_exception", request |-> request,
                      exception |-> exception, error_code |-> error_code]
    /\ UNCHANGED <<phase, redirect_enabled, pending, manager, gen, buffered, dispatched>>

GenLive == gen.state \in {"created", "suspended"}

\* process_spider_output(response, result, spider): the call itself only
\* creates the generator, no line of the body has run yet
ProcessSpiderOutput(response, result) ==
    /\ phase = "open"
    /\ ~GenLive
    /\ nops < MaxReportOps
    /\ nops' = nops + 1
    /\ gen' = [state |-> "created", response |-> response, result |-> result,
               pos |-> 1, links |-> <<>>, yielded |-> <<>>]
    /\ last' = [op |-> "process_spider_output"]
    /\ UNCHANGED <<phase, redirect_enabled, pending, stats, manager, frontier,
                   buffered, dispatched>>

\* the caller asks the generator for its next item: the body runs to the
\* next yield, or past the loop through page_crawled and add_crawled_page
GeneratorNext ==
    /\ phase = "open"
    /\ GenLive
    /\ nops < MaxReportOps
    /\ nops' = nops + 1
    /\ LET run == RunLoop(gen.result, gen.pos, gen.links)
       IN IF run.yields
          THEN /\ gen' = [gen EXCEPT !.state = "suspended", !.pos = run.pos,
                                     !.links = run.links,
                                     !.yielded = Append(@, run.element)]
               /\ last' = [op |-> "generator_next", ret |-> run.element]
               /\ UNCHANGED <<stats, frontier>>
          ELSE /\ frontier' = [frontier EXCEPT
                                  !.page_crawled = @ + 1,
                                  !.page_crawled_arg = <<gen.response, run.links>>]
               /\ stats' = add_crawled_page(stats, gen.response.status, Len(run.links))
               /\ gen' = [state |-> "exhausted"]
               /\ last' = [op |-> "generator_exhausted", response |-> gen.response,
                           result |-> gen.result, yielded |-> gen.yielded]
    /\ UNCHANGED <<phase, redirect_enabled, pending, manager, buffered, dispatched>>

\* variant: dropping the generator reports the page, as a finally clause would
GeneratorClose_Reports ==
    /\ phase = "open"
    /\ GenLive
    /\ nops < MaxReportOps
    /\ nops' = nops + 1
    /\ frontier' = [frontier EXCEPT !.page_crawled = @ + 1,
                                    !.page_crawled_arg = <<gen.response, gen.links>>]
    /\ stats' = add_crawled_page(stats, gen.response.status, Len(gen.links))
    /\ gen' = [state |-> "closed"]
    /\ last' = [op |-> "generator_close"]
    /\ UNCHANGED <<phase, redirect_enabled, pending, manager, buffered, dispatched>>

\* the caller drops the generator before exhausting it: nothing more runs
GeneratorClose ==
    /\ phase = "open"
    /\ GenLive
    /\ nops < MaxReportOps
    /\ nops' = nops + 1
    /\ gen' = [state |-> "closed"]
    /\ last' = [op |-> "generator_close"]
    /\ UNCHANGED <<phase, redirect_enabled, pending, stats, manager, frontier,
                   buffered, dispatched>>

\* admission and dispatch
Next ==
    \/ Open
    \/ \E request \in Requests : EnqueueRequest(request)
    \/ \E c \in 0..MaxConcurrency, batch \in Batches : NextRequest(c, batch)
    \/ FrontierFinishes
    \/ \E reason \in {"finished", "shutdown"} : Close(reason)

Spec == Init /\ [][Next]_vars

\* redirect_enabled is read by enqueue_request alone
InitReport == Init /\ redirect_enabled

\* outcome reporting: failed downloads
NextFailure ==
    \/ Open
    \/ \E request \in Requests, exception \in Exceptions :
          ProcessException(request, exception)

SpecFailure == InitReport /\ [][NextFailure]_vars

\* outcome reporting: spider output of a downloaded page
NextOutput ==
    \/ Open
    \/ \E response \in Responses, result \in Results :
          ProcessSpiderOutput(response, result)
    \/ GeneratorNext
    \/ GeneratorClose

SpecOutput == InitReport /\ [][NextOutput]_vars

\* admission and dispatch against a downloader that reports at most
\* LowConcurrency free slots
NextLowCapacity ==
    \/ Open
    \/ \E request \in Requests : EnqueueRequest(request)
    \/ \E c \in 0..LowConcurrency, batch \in Batches : NextRequest(c, batch)

SpecLowCapacity == Init /\ [][NextLowCapacity]_vars

\* admission and dispatch with refill batches longer than the downloader's
\* total_concurrency
NextRefill ==
    \/ Open
    \/ \E request \in Requests :
          nops < MaxRefillOps /\ EnqueueRequest(request)
    \/ \E c \in 0..MaxConcurrency, batch \in LongBatches :
          nops < MaxRefillOps /\ NextRequest(c, batch)

SpecRefill == Init /\ [][NextRefill]_vars

\* admission and dispatch against a frontier whose calls may raise
NextFailing ==
    \/ Open
    \/ \E request \in Requests : EnqueueRequest(request)
    \/ \E request \in Requests : EnqueueRequestRaises(request)
    \/ \E c \in 0..MaxConcurrency, batch \in Batches : NextRequest(c, batch)
    \/ \E c \in 0..MaxConcurrency : NextRequestRaises(c)

SpecFailing == Init /\ [][NextFailing]_vars

\* opening against a manager of either start-up configuration
NextStartup ==
    \/ ManagerAutoStarts
    \/ Open
    \/ \E request \in Requests : EnqueueRequest(request)
    \/ \E c \in 0..LowConcurrency, batch \in Batches : NextRequest(c, batch)

SpecStartup == Init /\ [][NextStartup]_vars

\* every handler that writes a stat, from open to close
NextStats ==
    \/ Open
    \/ \E request \in Requests : nops < MaxStatsOps /\ EnqueueRequest(request)
    \/ \E c \in 0..LowConcurrency, batch \in {b \in Batches : Len(b) <= 1} :
          nops < MaxStatsOps /\ NextRequest(c, batch)
    \/ \E request \in {[url |-> "A", meta |-> NoMeta]}, exception \in Exceptions :
          nops < MaxStatsOps /\ ProcessException(request, exception)
    \/ \E response \in Responses, result \in {r \in Results : Len(r) <= 1} :
          nops < MaxStatsOps /\ ProcessSpiderOutput(response, result)
    \/ nops < MaxStatsOps /\ GeneratorNext
    \/ \E reason \in {"finished"} : Close(reason)

SpecStats == InitReport /\ [][NextStats]_vars

\* an engine that never closes the scheduler and keeps calling next_request
HostLoop == \E c \in 0..MaxConcurrency, batch \in Batches : HostLoopNext(c, batch)

NextHostLoop ==
    \/ Open
    \/ \E request \in Requests : nops < MaxLiveOps /\ EnqueueRequest(request)
    \/ HostLoop

SpecHostLoop == Init /\ [][NextHostLoop]_vars /\ WF_vars(HostLoop)

\* ------------------------------------------------------------- properties
\* the redirect depth a request carries (0 when its meta has no redirect_times)
RedirectDepth(request) ==
    IF "redirect_times" \in DOMAIN request.meta
    THEN request.meta["redirect_times"]
    ELSE 0

\* the value of the stat with the full name name, 0 when it was never set
Stat(st, name) == IF name \in DOMAIN st THEN st[name] ELSE 0

\* every stat whose name is not in names has the same value in st and st2
OtherStatsSame(st, st2, names) ==
    \A k \in (DOMAIN st \cup DOMAIN st2) \ names : Stat(st2, k) = Stat(st, k)

\* the step is a call of enqueue_request / next_request / process_exception
EnqueueStep == nops' = nops + 1 /\ last'.op = "enqueue_request"

NextStep == nops' = nops + 1 /\ last'.op = "next_request"

FailureStep == nops' = nops + 1 /\ last'.op = "process_exception"

\* the step in which the generator of process_spider_output runs to its end
ExhaustStep == GenLive /\ gen'.state = "exhausted"

\* C1: enqueue_request of a request with redirect depth 0 returns True, calls
\* frontier.add_seeds once with the list of just that request, adds one to
\* seeds_count and to no other stat, whatever redirect_enabled is.
C1_SeedAdmitted ==
    [][(EnqueueStep /\ RedirectDepth(last'.request) = 0) =>
          /\ last'.ret = TRUE
          /\ frontier'.add_seeds = frontier.add_seeds + 1
          /\ frontier'.add_seeds_arg = <<last'.request>>
          /\ Stat(stats', "crawlfrontier/seeds_count")
                = Stat(stats, "crawlfrontier/seeds_count") + 1
          /\ OtherStatsSame(stats, stats', {"crawlfrontier/seeds_count"})
          /\ pending' = pending]_vars

C1_Witness ==
    /\ last.op = "enqueue_request"
    /\ RedirectDepth(last.request) = 0
    /\ "redirect_times" \in DOMAIN last.request.meta
    /\ last.ret = TRUE
    /\ ~redirect_enabled
    /\ frontier.add_seeds = 2
    /\ Stat(stats, "crawlfrontier/seeds_count") = 2

\* C2: enqueue_request of a request with redirect depth > 0 while
\* redirect_enabled is false returns False and leaves the deque, every stat
\* and the frontier as they were.
C2_RedirectRejected ==
    [][(EnqueueStep /\ RedirectDepth(last'.request) > 0 /\ ~redirect_enabled) =>
          /\ last'.ret = FALSE
          /\ pending' = pending
          /\ stats' = stats
          /\ frontier' = frontier]_vars

C2_Witness ==
    /\ last.op = "enqueue_request"
    /\ RedirectDepth(last.request) > 0
    /\ ~redirect_enabled
    /\ last.ret = FALSE
    /\ Len(pending) > 0
    /\ frontier.add_seeds > 0

\* C3: enqueue_request of a request with redirect depth > 0 while
\* redirect_enabled is true returns True, appends the request at the tail of
\* the deque (one longer), adds one to redirected_requests_count and does not
\* call frontier.add_seeds.
C3_RedirectBuffered ==
    [][(EnqueueStep /\ RedirectDepth(last'.request) > 0 /\ redirect_enabled) =>
          /\ last'.ret = TRUE
          /\ pending' = Append(pending, last'.request)
          /\ Len(pending') = Len(pending) + 1
          /\ Stat(stats', "crawlfrontier/redirected_requests_count")
                = Stat(stats, "crawlfrontier/redirected_requests_count") + 1
          /\ OtherStatsSame(stats, stats',
                            {"crawlfrontier/redirected_requests_count"})
          /\ frontier' = frontier]_vars

C3_Witness ==
    /\ last.op = "enqueue_request"
    /\ RedirectDepth(last.request) > 0
    /\ redirect_enabled
    /\ last.ret = TRUE
    /\ Len(pending) >= 2
    /\ pending[Len(pending)] = last.request
    /\ pending[1] # last.request

\* C4: a next_request call made while manager.finished is true does not call
\* frontier.get_next_requests, whatever the deque length and the downloader's
\* total_concurrency are; it only pops the head of the deque as it was.
C4_NoPullWhenFinished ==
    [][(NextStep /\ manager.finished) =>
          /\ frontier' = frontier
          /\ pending = <<>> => (last'.ret = None /\ pending' = <<>>)
          /\ pending # <<>> => (last'.ret = Head(pending) /\ pending' = Tail(pending))
      ]_vars

C4_Witness ==
    /\ last.op = "next_request"
    /\ manager.finished
    /\ last.finished
    /\ Len(last.buffer) < last.total_concurrency
    /\ last.ret # None

\* C5: a next_request call made while the deque length is at least
\* total_concurrency does not call frontier.get_next_requests; one made while
\* the frontier is not finished and the deque is shorter than
\* total_concurrency calls it exactly once.
C5_PullOnlyBelowCapacity ==
    [][NextStep =>
          /\ Len(pending) >= last'.total_concurrency =>
                frontier'.get_next_requests = frontier.get_next_requests
          /\ (~manager.finished /\ Len(pending) < last'.total_concurrency) =>
                frontier'.get_next_requests = frontier.get_next_requests + 1
      ]_vars

C5_Witness ==
    /\ last.op = "next_request"
    /\ ~last.finished
    /\ ~last.refilled
    /\ last.total_concurrency > 0
    /\ Len(last.buffer) >= last.total_concurrency
    /\ frontier.get_next_requests > 0

\* C6: the requests next_request has returned, followed by those still in the
\* deque, are exactly the requests appended to the deque, in the order of
\* appending (redirects as admitted, refill batches as the frontier returned
\* them): no reordering, no duplicate, none skipped.
C6_Fifo == dispatched \o pending = buffered

C6_Witness ==
    /\ Len(dispatched) >= 3
    /\ \E i, j \in 1..Len(dispatched) :
          /\ i < j
          /\ RedirectDepth(dispatched[i]) > 0
          /\ RedirectDepth(dispatched[j]) = 0
          /\ dispatched[i].url # dispatched[j].url
    /\ dispatched[2] # dispatched[3]

C8_FailureReported ==
    [][FailureStep =>
          LET e == last'.exception
              label == IF e.readable THEN e.class_name ELSE "?"
              total == "crawlfrontier/request_errors_count"
              kind == "crawlfrontier/request_errors_count/" \o label
          IN /\ last'.error_code = label
             /\ frontier'.request_error = frontier.request_error + 1
             /\ frontier'.request_error_arg = <<last'.request, label>>
             /\ Stat(stats', total) = Stat(stats, total) + 1
             /\ Stat(stats', kind) = Stat(stats, kind) + 1
             /\ OtherStatsSame(stats, stats', {total, kind})]_vars

C8_Witness ==
    /\ last.op = "process_exception"
    /\ ~last.exception.readable
    /\ frontier.request_error = 3
    /\ frontier.request_error_arg = <<last.request, "?">>
    /\ Stat(stats, "crawlfrontier/request_errors_count") = 3
    /\ Stat(stats, "crawlfrontier/request_errors_count/?") = 1
    /\ Stat(stats, "crawlfrontier/request_errors_count/DNSLookupError") = 2

\* C9: when the result of process_spider_output has been consumed to its
\* end, the caller has received exactly the non-Request items in their
\* order, frontier.page_crawled has been called once with the response and
\* exactly the Request items in their order, and one crawled page is counted
\* for the response's status with as many links as there are Request items;
\* no other step calls page_crawled or touches the stats, and no Request is
\* ever yielded.
C9_PageCrawled ==
    [][/\ ExhaustStep =>
             LET links == SelectSeq(gen.result, LAMBDA x : x \in FrontierRequests)
                 items == SelectSeq(gen.result, LAMBDA x : x \in Items)
                 total == "crawlfrontier/crawled_pages_count"
                 bystatus == CASE gen.response.status = 200 ->
                                    "crawlfrontier/crawled_pages_count/200"
                               [] gen.response.status = 404 ->
                                    "crawlfrontier/crawled_pages_count/404"
                 nlinks == "crawlfrontier/links_extracted_count"
             IN /\ gen.yielded = items
                /\ frontier'.page_crawled = frontier.page_crawled + 1
                /\ frontier'.page_crawled_arg = <<gen.response, links>>
                /\ Stat(stats', total) = Stat(stats, total) + 1
                /\ Stat(stats', bystatus) = Stat(stats, bystatus) + 1
                /\ Stat(stats', nlinks) = Stat(stats, nlinks) + Len(links)
                /\ OtherStatsSame(stats, stats', {total, bystatus, nlinks})
       /\ ~ExhaustStep =>
             /\ frontier'.page_crawled = frontier.page_crawled
             /\ frontier'.page_crawled_arg = frontier.page_crawled_arg
             /\ stats' = stats
       /\ (GenLive /\ gen'.state = "suspended") =>
             /\ last'.ret \in Items
             /\ gen'.yielded = Append(gen.yielded, last'.ret)]_vars

C9_Witness ==
    /\ last.op = "generator_exhausted"
    /\ Len(last.result) = 3
    /\ last.result[2] \in Items
    /\ last.yielded = <<last.result[2]>>
    /\ frontier.page_crawled = 1
    /\ frontier.page_crawled_arg = <<last.response, <<last.result[1], last.result[3]>>>>
    /\ last.result[1] # last.result[3]
    /\ Stat(stats, "crawlfrontier/links_extracted_count") = 2

\* C10 as stated: after a next_request call has appended the batch it pulled,
\* the deque is no longer than the downloader's total_concurrency.
C10_WithinCapacity ==
    (last.op = "next_request" /\ last.refilled) =>
        Len(last.buffer) <= last.total_concurrency

\* C10: after a next_request call has appended the batch it pulled, the deque
\* is no longer than total_concurrency - 1 plus the length of that batch.
C10_WithinCapacityPlusBatch ==
    (last.op = "next_request" /\ last.refilled) =>
        Len(last.buffer) + 1
            <= last.total_concurrency + Len(frontier.get_next_requests_ret)

C10_Witness ==
    /\ last.op = "next_request"
    /\ last.refilled
    /\ Len(last.buffer) > last.total_concurrency
    /\ Len(last.buffer) + 1
          = last.total_concurrency + Len(frontier.get_next_requests_ret)
    /\ Len(frontier.get_next_requests_ret) = 2

\* C11 as stated: with total_concurrency at most C and batches of at most B
\* requests, the deque never holds more than C + B requests.
C11_BufferBounded == Len(pending) <= LowConcurrency + MaxBatch

\* C11: the deque never holds more than C + B requests plus the redirected
\* requests enqueue_request has appended to it.
C11_BufferBoundedUpToRedirects ==
    Len(pending) <= LowConcurrency + MaxBatch
                      + Stat(stats, "crawlfrontier/redirected_requests_count")

C11_Witness ==
    /\ Len(pending) > LowConcurrency + MaxBatch
    /\ frontier.get_next_requests > 0
    /\ Len(frontier.get_next_requests_ret) = MaxBatch
    /\ Stat(stats, "crawlfrontier/redirected_requests_count") = 3

\* C12: with S the deque after the refill step of a next_request call (the
\* deque as it was, followed by the batch if one was pulled): a non-empty S
\* makes the call return the head of S, leave the rest of S in order and add
\* one to returned_requests_count; an empty S makes it return None and leave
\* the deque and the count as they were.  With total_concurrency 2, an empty
\* deque and a batch [A, B, C]: A is returned, [B, C] is left, the count is 1.
C12_PopsOne ==
    [][NextStep =>
          LET pulled == frontier'.get_next_requests = frontier.get_next_requests + 1
              S == IF pulled THEN pending \o frontier'.get_next_requests_ret
                   ELSE pending
              returned == "crawlfrontier/returned_requests_count"
          IN /\ S # <<>> =>
                   /\ last'.ret = Head(S)
                   /\ pending' = Tail(S)
                   /\ Stat(stats', returned) = Stat(stats, returned) + 1
             /\ S = <<>> =>
                   /\ last'.ret = None
                   /\ pending' = pending
                   /\ Stat(stats', returned) = Stat(stats, returned)
             /\ OtherStatsSame(stats, stats', {returned})
             /\ (/\ last'.total_concurrency = 2
                 /\ pending = <<>>
                 /\ pulled
                 /\ Len(frontier'.get_next_requests_ret) = 3
                 /\ Stat(stats, returned) = 0) =>
                   /\ last'.ret = frontier'.get_next_requests_ret[1]
                   /\ pending' = SubSeq(frontier'.get_next_requests_ret, 2, 3)
                   /\ Stat(stats', returned) = 1]_vars

C12_Witness ==
    /\ last.op = "next_request"
    /\ last.total_concurrency = 2
    /\ last.refilled
    /\ nops = 1
    /\ Len(frontier.get_next_requests_ret) = 3
    /\ [i \in 1..3 |-> frontier.get_next_requests_ret[i].url] = <<"A", "B", "C">>
    /\ last.ret.url = "A"
    /\ Len(pending) = 2
    /\ [i \in 1..2 |-> pending[i].url] = <<"B", "C">>
    /\ Stat(stats, "crawlfrontier/returned_requests_count") = 1

\* the places at which request x stands in the sequence q
Places(q, x) == {i \in 1..Len(q) : q[i] = x}

\* C13: a redirected request appended to the deque is returned by
\* next_request after every request that was appended before it and before
\* every request a later refill appends.  Stated for the requests that were
\* appended once, so that a returned request is known by its value: of two
\* such requests, one of them a redirect, the one appended later is never
\* returned unless the one appended earlier was returned before it.
C13_RedirectKeepsItsTurn ==
    \A i, j \in 1..Len(buffered) :
        (/\ i < j
         /\ RedirectDepth(buffered[i]) > 0 \/ RedirectDepth(buffered[j]) > 0
         /\ Places(buffered, buffered[i]) = {i}
         /\ Places(buffered, buffered[j]) = {j}) =>
            \A n \in Places(dispatched, buffered[j]) :
                \E m \in Places(dispatched, buffered[i]) : m < n

C13_Witness ==
    /\ last.op = "next_request"
    /\ last.refilled
    /\ Len(buffered) = 4
    /\ Len(dispatched) = 3
    /\ RedirectDepth(buffered[2]) = 0
    /\ RedirectDepth(buffered[3]) > 0
    /\ Places(buffered, buffered[3]) = {3}
    /\ Places(buffered, buffered[2]) = {2}
    /\ dispatched[2] = buffered[2]
    /\ dispatched[3] = buffered[3]
    /\ pending = <<buffered[4]>>
    /\ frontier.get_next_requests_ret = <<buffered[4]>>

\* the step is a call of close
CloseStep == phase = "open" /\ phase' = "closed"

\* what close does according to both readings of C14: frontier.stop once with
\* the reason, then the iterations gauge and the pending gauge (the deque
\* length at that moment), no other stat and no other frontier call
CloseFlushes ==
    /\ frontier' = [frontier EXCEPT !.stop = @ + 1, !.stop_reason = last'.reason]
    /\ Stat(stats', "crawlfrontier/iterations") = manager.iteration
    /\ Stat(stats', "crawlfrontier/pending_requests_count") = Len(pending)
    /\ OtherStatsSame(stats, stats', {"crawlfrontier/iterations",
                                      "crawlfrontier/pending_requests_count"})

RaisedIn(method) ==
    /\ nops' = nops + 1
    /\ "raised" \in DOMAIN last'
    /\ last'.raised = method

\* C15: when frontier.add_seeds raises in enqueue_request the call does not
\* return a value, add_seeds has been called once and not again, seeds_count
\* and every other stat and the deque are as before; when
\* frontier.get_next_requests raises in next_request the call does not
\* return a value, nothing is popped and no stat changes.
C15_FrontierFailurePropagates ==
    [][/\ RaisedIn("add_seeds") =>
             /\ "ret" \notin DOMAIN last'
             /\ RedirectDepth(last'.request) = 0
             /\ frontier' = [frontier EXCEPT !.add_seeds = @ + 1,
                                             !.add_seeds_arg = <<last'.request>>]
             /\ stats' = stats
             /\ pending' = pending
       /\ RaisedIn("get_next_requests") =>
             /\ "ret" \notin DOMAIN last'
             /\ ~manager.finished /\ Len(pending) < last'.total_concurrency
             /\ frontier' = [frontier EXCEPT !.get_next_requests = @ + 1]
             /\ stats' = stats
             /\ pending' = pending
             /\ dispatched' = dispatched]_vars

C15_Witness ==
    /\ "raised" \in DOMAIN last
    /\ last.raised = "get_next_requests"
    /\ Len(pending) = 1
    /\ frontier.get_next_requests = 2
    /\ frontier.add_seeds = 2
    /\ Stat(stats, "crawlfrontier/seeds_count") = 1
    /\ Stat(stats, "crawlfrontier/returned_requests_count") = 1

OpenStep == phase = "new" /\ phase' = "open"

\* C16: open calls frontier.start exactly once when manager.auto_start is
\* false and not at all when it is true, and changes neither the deque nor
\* any stat; no later call of the scheduler calls frontier.start.
C16_StartOnceUnlessAutoStart ==
    [][/\ OpenStep =>
             /\ frontier' = [frontier EXCEPT !.start =
                                 IF manager.auto_start THEN @ ELSE @ + 1]
             /\ pending' = pending
             /\ stats' = stats
       /\ phase' # "new" =>
             frontier'.start = IF manager'.auto_start THEN 0 ELSE 1]_vars

C16_Witness ==
    /\ last.op = "open"
    /\ phase = "open"
    /\ ~manager.auto_start
    /\ frontier.start = 1
    /\ pending = <<>>
    /\ stats = [k \in {} |-> 0]

\* the codes and statuses a per-kind counter can be named after
ErrorCodes == {_get_exception_code(exception) : exception \in Exceptions}

StatusCodes == {response.status : response \in Responses}

ErrorKindNames ==
    {_get_stats_name("request_errors_count/" \o code) : code \in ErrorCodes}

StatusKindNames ==
    {_get_stats_name("crawled_pages_count/" \o Str(status)) : status \in StatusCodes}

CounterNames ==
    {_get_stats_name(v) : v \in {"seeds_count", "crawled_pages_count",
                                  "links_extracted_count",
                                  "redirected_requests_count",
                                  "returned_requests_count",
                                  "request_errors_count"}}
        \cup ErrorKindNames \cup StatusKindNames

GaugeNames == {_get_stats_name(v) : v \in {"iterations", "pending_requests_count"}}

RECURSIVE SumStats(_, _)
SumStats(st, names) ==
    IF names = {} THEN 0
    ELSE LET n == CHOOSE x \in names : TRUE
         IN Stat(st, n) + SumStats(st, names \ {n})

\* C17: request_errors_count is the sum of the request_errors_count/<code>
\* counters and crawled_pages_count the sum of the crawled_pages_count/<status>
\* counters (every stat written is one of the named counters or one of the
\* two gauges), and no counter other than the gauges ever decreases.
C17_TotalsAndMonotone ==
    [][/\ DOMAIN stats' \subseteq CounterNames \cup GaugeNames
       /\ Stat(stats', "crawlfrontier/request_errors_count")
             = SumStats(stats', ErrorKindNames)
       /\ Stat(stats', "crawlfrontier/crawled_pages_count")
             = SumStats(stats', StatusKindNames)
       /\ \A k \in CounterNames : Stat(stats', k) >= Stat(stats, k)]_vars

C17_Witness ==
    /\ Stat(stats, "crawlfrontier/request_errors_count") = 2
    /\ Stat(stats, "crawlfrontier/request_errors_count/?") = 1
    /\ Stat(stats, "crawlfrontier/request_errors_count/TimeoutError") = 1
    /\ Stat(stats, "crawlfrontier/crawled_pages_count") = 1
    /\ Stat(stats, "crawlfrontier/crawled_pages_count/404") = 1
    /\ phase = "closed"

\* the number of requests the step took from frontier.get_next_requests
PulledInStep ==
    IF frontier'.get_next_requests = frontier.get_next_requests + 1
    THEN Len(frontier'.get_next_requests_ret)
    ELSE 0

\* C18: up to close, returned_requests_count plus the length of the deque
\* equals redirected_requests_count plus the number of requests taken from
\* frontier.get_next_requests (the balance is zero at the start and every
\* step adds the same amount to both sides), and enqueue_request of a
\* request that is not a redirect leaves the deque as it was.
C18_Conservation ==
    [][phase' # "closed" =>
         /\ (phase = "new" =>
                 /\ Len(pending) = 0 /\ Len(buffered) = 0
                 /\ Stat(stats, "crawlfrontier/returned_requests_count") = 0
                 /\ Stat(stats, "crawlfrontier/redirected_requests_count") = 0
                 /\ frontier.get_next_requests = 0)
         /\ (Stat(stats', "crawlfrontier/returned_requests_count") + Len(pending'))
               - (Stat(stats, "crawlfrontier/returned_requests_count") + Len(pending))
             = (Stat(stats', "crawlfrontier/redirected_requests_count")
                  - Stat(stats, "crawlfrontier/redirected_requests_count"))
               + PulledInStep
         /\ Len(buffered') - Len(buffered)
             = (Stat(stats', "crawlfrontier/redirected_requests_count")
                  - Stat(stats, "crawlfrontier/redirected_requests_count"))
               + PulledInStep
         /\ Stat(stats', "crawlfrontier/returned_requests_count") + Len(pending')
             = Len(buffered')
         /\ (EnqueueStep /\ RedirectDepth(last'.request) = 0) =>
                 /\ pending' = pending
                 /\ buffered' = buffered
         /\ (EnqueueStep /\ pending' # pending) =>
                 /\ redirect_enabled
                 /\ RedirectDepth(last'.request) > 0
                 /\ pending' = Append(pending, last'.request)]_vars

C18_Witness ==
    /\ phase = "open"
    /\ frontier.add_seeds = 1
    /\ Stat(stats, "crawlfrontier/redirected_requests_count") = 1
    /\ Stat(stats, "crawlfrontier/returned_requests_count") = 1
    /\ frontier.get_next_requests = 1
    /\ Len(frontier.get_next_requests_ret) = 2
    /\ Len(pending) = 2
    /\ Len(buffered) = 3

\* C19: under an engine that keeps calling next_request and never closes,
\* the i-th request that entered the deque is eventually returned by
\* next_request, as the i-th request returned, whatever redirects and
\* frontier batches are appended in the meantime.
C19_NoStarvation ==
    \A i \in 1..MaxLiveOps :
        (Len(buffered) >= i) ~> (Len(dispatched) >= i /\ dispatched[i] = buffered[i])

C19_Witness ==
    /\ Len(buffered) = 3
    /\ dispatched = buffered
    /\ pending = <<>>
    /\ RedirectDepth(buffered[1]) = 0
    /\ RedirectDepth(buffered[2]) > 0
    /\ RedirectDepth(buffered[3]) = 0
    /\ frontier.get_next_requests >= 2
    /\ Stat(stats, "crawlfrontier/redirected_requests_count") = 1

\* frontier.page_crawled was called, or a crawled-page stat written, in the step
PageReported ==
    \/ frontier'.page_crawled # frontier.page_crawled
    \/ frontier'.page_crawled_arg # frontier.page_crawled_arg
    \/ stats' # stats

\* C20: calling process_spider_output reports nothing; a next() that hands
\* over an item reports nothing; dropping the generator reports nothing and
\* nothing is reported for it afterwards; the page is reported only in the
\* next() that runs past the end of result, when every element of result has
\* been visited and every non-Request item has already been handed over.
C20_LazyReport ==
    [][/\ gen'.state = "created" => ~PageReported
       /\ gen'.state = "suspended" => ~PageReported
       /\ gen'.state = "closed" => ~PageReported
       /\ gen.state = "closed" => (~PageReported /\ gen'.state \in {"closed", "created"})
       /\ PageReported =>
             /\ GenLive
             /\ gen'.state = "exhausted"
             /\ last'.op = "generator_exhausted"
             /\ gen.yielded = SelectSeq(gen.result, LAMBDA x : x \in Items)
             /\ \A i \in gen.pos..Len(gen.result) : gen.result[i] \in FrontierRequests
             /\ frontier'.page_crawled = frontier.page_crawled + 1
             /\ frontier'.page_crawled_arg[1] = gen.response]_vars

C20_Witness ==
    /\ last.op = "generator_close"
    /\ gen.state = "closed"
    /\ nops = 3
    /\ frontier.page_crawled = 0
    /\ stats = [k \in {} |-> 0]
====
